---- MODULE Spec2Model ----
(***************************************************************************)
(* State-machine model of src/net-app.py: the NetApp equipment registry    *)
(* (equipments / reverse_equipments / equipment_nbr), the NetworkEquipment *)
(* objects, the canvas items the handlers create, move and delete, and the *)
(* pointer / menu / prompt handlers bound to them.                         *)
(***************************************************************************)
EXTENDS Integers, Sequences, FiniteSets, TLC

VARIABLES
    equipments,          \* NetApp.equipments: id -> entry | None
    equipment_nbr,       \* NetApp.equipment_nbr
    reverse_equipments,  \* NetApp.reverse_equipments: canvas tag -> id
    ids,                 \* NetworkEquipment.ids: kind -> per-kind counter
    focused_tag,         \* NetApp.focused_tag (0 = nothing pressed yet)
    mouse_coords,        \* NetApp.mouse_coords
    popup_entry_var,     \* NetApp.popup_entry_var
    items,               \* canvas items: tag -> [type, x, y, val] (x, y = bbox top-left)
    display,             \* canvas display list, bottom first
    next_item,           \* next canvas item id (Tk never reuses item ids)
    pressed,             \* icon holding the button-1 press (0 = button up)
    steps,               \* handlers run so far
    prompts,             \* stack of rename handlers waiting in wait_window: [open: its toplevel
                         \* still exists, target: what the command resolved to when invoked]
    last                 \* record of the handler that ran last and how it ended

vars == <<equipments, equipment_nbr, reverse_equipments, ids, focused_tag,
          mouse_coords, popup_entry_var, items, display, next_item, pressed,
          prompts, steps, last>>

----------------------------------------------------------------------------
(* Bounds of the exploration *)

MaxSteps == 5     \* events delivered in one run

(* Program constants *)

x_size == 800
y_size == 800
icon_size == 64

(* Environment: extent of a label's text box and the canvas pick tolerance *)

TextW == 56
TextH == 16
CloseEnough == 1

supported_equipments == <<"switch", "router", "pc", "mobile">>

SupportedSet == {supported_equipments[i] : i \in 1..Len(supported_equipments)}

(* Inputs the handlers are driven with *)

TypeInputs == {"switch", "router", "toaster", "Switch"}
MovePts == {<<400, 400>>, <<400, 436>>}
ClickPts == {<<400, 400>>, <<400, 433>>}
DragPts == {<<900, -5>>, <<300, 900>>}
NameInputs == {"", "core"}
PathInputs == {"", "new.png", "bad.png"}

None == [none |-> TRUE]

----------------------------------------------------------------------------
(* str.lower() on the strings of TypeInputs *)
Lower(s) ==
    CASE s = "Switch" -> "switch"
      [] s = "ROUTER" -> "router"
      [] OTHER -> s

(* f"{equipment}-{n}" *)
DefaultName(kind, n) == kind \o "-" \o ToString(n)

(* f"./src/icons/{equipment}.png" *)
DefaultIconPath(kind) == "./src/icons/" \o kind \o ".png"

(* Image.open(path): the files that load *)
Loads(path) == path \in {DefaultIconPath(k) : k \in SupportedSet} \cup {"new.png"}

Min(a, b) == IF a <= b THEN a ELSE b
Max(a, b) == IF a >= b THEN a ELSE b

----------------------------------------------------------------------------
(* Canvas surface *)

ItemW(it) == IF it.type = "image" THEN icon_size ELSE TextW
ItemH(it) == IF it.type = "image" THEN icon_size ELSE TextH

(* squared distance from point p to the item's box *)
Dist2(p, it) ==
    LET dx == Max(Max(it.x - p[1], p[1] - (it.x + ItemW(it))), 0)
        dy == Max(Max(it.y - p[2], p[2] - (it.y + ItemH(it))), 0)
    IN dx * dx + dy * dy

(* Canvas.find_closest(x, y): the nearest item, the topmost among equals;
   an empty tuple (modelled 0) on an empty canvas *)
find_closest(p) ==
    IF Len(display) = 0 THEN 0
    ELSE LET d == [i \in 1..Len(display) |-> Dist2(p, items[display[i]])]
             best == CHOOSE i \in 1..Len(display) :
                 \A j \in 1..Len(display) : d[i] < d[j] \/ (d[i] = d[j] /\ j <= i)
         IN display[best]

(* The canvas's current item under the pointer: the topmost item within
   closeEnough of it; events bound to a tag are delivered to that item *)
Current(p) ==
    LET near == {i \in 1..Len(display) :
                    Dist2(p, items[display[i]]) <= CloseEnough * CloseEnough}
    IN IF near = {} THEN 0
       ELSE display[CHOOSE i \in near : \A j \in near : j <= i]

Without(seq, e) == SelectSeq(seq, LAMBDA z : z # e)

InSeq(seq, e) == \E i \in DOMAIN seq : seq[i] = e

(* Canvas.tag_raise / tag_lower of one item of display list seq *)
tag_raise(seq, e) == IF InSeq(seq, e) THEN Append(Without(seq, e), e) ELSE seq
tag_lower(seq, e) == IF InSeq(seq, e) THEN <<e>> \o Without(seq, e) ELSE seq

(* Canvas.move: the item displaced by (x, y) *)
MoveBy(its, tag, x, y) ==
    IF tag \in DOMAIN its
    THEN [its EXCEPT ![tag].x = its[tag].x + x, ![tag].y = its[tag].y + y]
    ELSE its

(* Canvas.moveto: the item's bbox top-left goes to (x, y); no item, no effect *)
MoveTo(its, tag, x, y) ==
    IF tag \in DOMAIN its THEN [its EXCEPT ![tag].x = x, ![tag].y = y] ELSE its

Drop(f, k) == [j \in DOMAIN f \ {k} |-> f[j]]

(* an item left as it is *)
itemconfigureNothing(its, tag, val) == its

(* Canvas.itemconfigure(tag, text=... / image=...) *)
itemconfigure(its, tag, val) ==
    IF tag \in DOMAIN its THEN [its EXCEPT ![tag].val = val] ELSE its

----------------------------------------------------------------------------
Init ==
    /\ equipments = << >>
    /\ equipment_nbr = 0
    /\ reverse_equipments = << >>
    /\ ids = [k \in SupportedSet |-> 0]
    /\ focused_tag = 0
    /\ mouse_coords = <<0, 0>>
    /\ popup_entry_var = ""
    /\ items = << >>
    /\ display = << >>
    /\ next_item = 1
    /\ pressed = 0
    /\ prompts = << >>
    /\ steps = 0
    /\ last = [op |-> "init", err |-> "ok", tag |-> 0, arg |-> 0]

(* every handler run is one event of the run's budget *)
Tick == steps < MaxSteps /\ steps' = steps + 1

(* the record a handler leaves of its run *)
Done(op, err, tag, arg) ==
    last' = [op |-> op, err |-> err, tag |-> tag, arg |-> arg]

(* root <Motion> binding: __getMouseCoords, for a motion with no button
   held (with button 1 held on an icon the motion is endDragFocus's) *)
getMouseCoords(p) ==
    /\ Tick
    /\ mouse_coords' = p
    /\ pressed' = 0
    /\ Done("motion", "ok", 0, p)
    /\ UNCHANGED <<equipments, equipment_nbr, reverse_equipments, ids, focused_tag,
                   popup_entry_var, items, display, next_item, prompts>>

----------------------------------------------------------------------------
(* NetworkEquipment.__init__ *)

(* the check of line 401: does the constructor raise ValueError? *)
Unsupported(type) == Lower(type) \notin SupportedSet

Live == {i \in DOMAIN equipments : equipments[i] # None}

(* a per-kind number taken from the equipment of the kind still alive *)
NextSeqOfLive(kind) ==
    Cardinality({i \in Live : equipments[i].item.equipment = kind}) + 1

(* NetworkEquipment.ids[self.equipment] += 1 reads the key first: KeyError
   when the string as given is no key of ids *)
NextSeq(kind) == ids[kind] + 1

NewItem(type) ==
    [equipment |-> type,
     icon_path |-> DefaultIconPath(type),
     icon      |-> DefaultIconPath(type),
     name      |-> DefaultName(type, NextSeq(type)),
     links_nbr |-> 0]

(* an id taken from the number of live entries *)
NextIdOfLive(nbr) == Cardinality(Live) + 1

(* line 200: the id the entry is stored under *)
NextId(nbr) == nbr + 1

(* Edit menu commands / add_equipment(type) *)
add_equipment(type) ==
    /\ Tick
    /\ equipment_nbr' = NextId(equipment_nbr)
    /\ IF Unsupported(type)
       THEN /\ Done("insert", "ValueError", 0, type)
            /\ UNCHANGED <<equipments, reverse_equipments, ids, items, display, next_item>>
       ELSE IF type \notin DOMAIN ids
       THEN \* the icon file of a differently-cased name loads or not with the
            \* file system; when it loads, ids[type] raises KeyError
            /\ \E e \in {"FileNotFoundError", "KeyError"} : Done("insert", e, 0, type)
            /\ UNCHANGED <<equipments, reverse_equipments, ids, items, display, next_item>>
       ELSE LET new_equipment == NewItem(type)
                canvas_tag == next_item
                equipment_label == next_item + 1
                cx == x_size \div 2
                cy == y_size \div 2
                image == [type |-> "image", x |-> cx - icon_size \div 2,
                          y |-> cy - icon_size \div 2, val |-> new_equipment.icon]
                text == [type |-> "text", x |-> cx - TextW \div 2,
                         y |-> (cy + icon_size \div 2) - TextH \div 2,
                         val |-> new_equipment.name]
            IN /\ ids' = [ids EXCEPT ![type] = NextSeq(type)]
               /\ items' = (canvas_tag :> image) @@ (equipment_label :> text) @@ items
               /\ next_item' = next_item + 2
               /\ equipments' = (equipment_nbr' :>
                                    [item |-> new_equipment,
                                     canvas_id |-> canvas_tag,
                                     label |-> equipment_label,
                                     links |-> << >>]) @@ equipments
               /\ reverse_equipments' = (canvas_tag :> equipment_nbr') @@ reverse_equipments
               \* __configureEquipment: tag_raise(equipment_tag)
               /\ display' = tag_raise(Append(Append(display, canvas_tag), equipment_label),
                                       canvas_tag)
               /\ Done("insert", "ok", canvas_tag, type)
    /\ pressed' = 0
    /\ UNCHANGED <<focused_tag, mouse_coords, popup_entry_var, prompts>>

----------------------------------------------------------------------------
(* Registry lookups *)

IsIcon(tag) == tag \in DOMAIN items /\ items[tag].type = "image"

(* self.equipments[self.reverse_equipments[tag]][...]: how the lookup ends.
   KeyError: the tag is no key of reverse_equipments; TypeError: the entry
   is None and is subscripted; IndexError: find_closest(...)[0] of an empty
   canvas gave no tag at all *)
LookupErr(tag) ==
    IF tag = 0 THEN "IndexError"
    ELSE IF tag \notin DOMAIN reverse_equipments THEN "KeyError"
    ELSE IF equipments[reverse_equipments[tag]] = None THEN "TypeError"
    ELSE "ok"

----------------------------------------------------------------------------
(* Drag & drop *)

(* <Button-1> on an icon: startDragFocus. The icon holds the press until
   the button is next used: on another item, a menu or a dialog *)
startDragFocus(p) ==
    /\ Tick
    /\ IsIcon(Current(p))
    /\ focused_tag' = find_closest(p)
    /\ pressed' = Current(p)
    /\ Done("press", "ok", focused_tag', p)
    /\ UNCHANGED <<equipments, equipment_nbr, reverse_equipments, ids, mouse_coords,
                   popup_entry_var, items, display, next_item, prompts>>

(* widget.winfo_x() / winfo_y(): the canvas sits at the origin of mainframe
   (grid column 1, row 1; column 0 and row 0 are empty) *)
winfo_x == 0
winfo_y == 0

(* a clamp on both sides *)
ClampYBothSides(y) == IF winfo_y + y <= y_size THEN Max(y, 0) ELSE y_size

(* lines 242-243 *)
ClampX(x) == IF winfo_x + x <= x_size THEN x ELSE x_size
ClampY(y) == IF winfo_y + y <= y_size THEN y ELSE y_size

(* <B1-Motion> on the pressed icon: endDragFocus; the same motion event
   reaches the root <Motion> binding *)
endDragFocus(p) ==
    /\ Tick
    /\ pressed # 0
    /\ IsIcon(pressed)
    /\ LET x == ClampX(p[1])
           y == ClampY(p[2])
           difference_mouse_icon == icon_size \div 2
           moved == MoveTo(items, focused_tag, x - difference_mouse_icon,
                           y - difference_mouse_icon)
           err == LookupErr(focused_tag)
       IN /\ IF err = "ok"
             THEN items' = MoveTo(moved,
                                  equipments[reverse_equipments[focused_tag]].label,
                                  x - difference_mouse_icon \div 2,
                                  y + difference_mouse_icon)
             ELSE items' = moved
          /\ Done("drag", err, focused_tag, p)
    /\ mouse_coords' = p
    /\ UNCHANGED <<equipments, equipment_nbr, reverse_equipments, ids, focused_tag,
                   popup_entry_var, display, next_item, pressed, prompts>>

----------------------------------------------------------------------------
(* Double clicks *)

(* the entry set to None under the canvas tag instead of the id *)
prepareDeletionByTag(tag) ==
    [i \in DOMAIN equipments \cup {tag} |-> IF i = tag THEN None ELSE equipments[i]]

(* __prepareDeletionOfEquipment: line 181 *)
prepareDeletionEquipments(tag) ==
    [equipments EXCEPT ![reverse_equipments[tag]] = None]

(* __prepareDeletionOfEquipment: what is left of reverse_equipments *)
prepareDeletionReverse(tag) == reverse_equipments

(* the canvas item deleted whether or not the registry knows the tag *)
ItemsAfterDeleteAnyway(tag) == Drop(items, tag)

(* lines 268-269: playground.delete runs when __prepareDeletionOfEquipment
   returned, that is when the tag is a key of reverse_equipments *)
ItemsAfterDelete(tag) ==
    IF tag \in DOMAIN reverse_equipments THEN Drop(items, tag) ELSE items

(* <Double-Button-1> on an icon: deleteItem. The second press of a double
   click follows a press at the same point *)
deleteItem(p) ==
    /\ Tick
    /\ last.op = "press" /\ last.arg = p
    /\ IsIcon(Current(p))
    /\ LET selected_tag == find_closest(p)
       IN IF selected_tag \notin DOMAIN reverse_equipments
          THEN /\ Done("delete", "KeyError", selected_tag, p)
               /\ pressed' = Current(p)
               /\ items' = ItemsAfterDelete(selected_tag)
               /\ UNCHANGED <<equipments, reverse_equipments, display>>
          ELSE /\ equipments' = prepareDeletionEquipments(selected_tag)
               /\ reverse_equipments' = prepareDeletionReverse(selected_tag)
               \* tag_lower, then playground.delete
               /\ items' = ItemsAfterDelete(selected_tag)
               /\ display' = Without(tag_lower(display, selected_tag), selected_tag)
               /\ pressed' = IF Current(p) = selected_tag THEN 0 ELSE Current(p)
               /\ Done("delete", "ok", selected_tag, p)
    /\ UNCHANGED <<equipment_nbr, ids, focused_tag, mouse_coords, popup_entry_var,
                   next_item, prompts>>

----------------------------------------------------------------------------
(* Right-click menu commands. The menu is posted by <Button-3> on an icon
   (popRightClickMenu), so a command needs an icon to have been there. *)

HasIcon == \E t \in DOMAIN items : items[t].type = "image"

(* lines 285-293, 302-310, 317-321: focused_tag, else the item closest to
   the tracked pointer position *)
Target == IF focused_tag # 0 THEN focused_tag ELSE find_closest(mouse_coords)

(* NetworkEquipment.setName *)
setName(item, new_name) == [item EXCEPT !.name = new_name]

(* setEquipmentName on registry eq and canvas items its *)
setEquipmentName(eq, its, equipment_tag, name) ==
    IF equipment_tag = 0 THEN [eq |-> eq, its |-> its, err |-> "IndexError"]
    ELSE IF equipment_tag \notin DOMAIN reverse_equipments
    THEN [eq |-> eq, its |-> its, err |-> "KeyError"]
    ELSE LET equipment_holder == reverse_equipments[equipment_tag]
         IN IF eq[equipment_holder] = None
            THEN [eq |-> eq, its |-> its, err |-> "TypeError"]
            ELSE LET obj == setName(eq[equipment_holder].item, name)
                     equipment_label == eq[equipment_holder].label
                 IN [eq  |-> [eq EXCEPT ![equipment_holder].item = obj],
                     its |-> itemconfigure(its, equipment_label, obj.name),
                     err |-> "ok"]

(* handleChangeOfEquipmentName up to wait_window: the prompt opens and the
   handler waits in a nested event loop, in which the other handlers run *)
handleChangeOfEquipmentName ==
    /\ Tick
    /\ HasIcon
    /\ prompts' = Append(prompts, [open |-> TRUE, target |-> Target])
    /\ pressed' = 0
    /\ Done("prompt", "ok", 0, 0)
    /\ UNCHANGED <<equipments, equipment_nbr, reverse_equipments, ids, focused_tag,
                   mouse_coords, popup_entry_var, items, display, next_item>>

(* The handlers whose wait_window returns, innermost first: a handler
   resumes once its toplevel is destroyed and every handler nested above it
   has returned. Each applies popup_entry_var as it is then. *)
RECURSIVE Resume(_, _, _, _, _)
Resume(stack, eq, its, var, err) ==
    IF Len(stack) = 0 \/ stack[Len(stack)].open
    THEN [prompts |-> stack, eq |-> eq, its |-> its, err |-> err]
    ELSE LET r == setEquipmentName(eq, its, Target, var)
         IN Resume(SubSeq(stack, 1, Len(stack) - 1), r.eq, r.its, var, r.err)

(* prompt i's toplevel is destroyed, var being popup_entry_var after it *)
Closed(i, var, how, text) ==
    /\ Tick
    /\ i \in DOMAIN prompts
    /\ prompts[i].open
    /\ popup_entry_var' = var
    /\ LET r == Resume([prompts EXCEPT ![i].open = FALSE], equipments, items, var, "none")
       IN /\ prompts' = r.prompts
          /\ equipments' = r.eq
          /\ items' = r.its
          /\ IF r.err = "none"
             THEN Done(how, "ok", 0, text)
             ELSE Done("rename", r.err, Target, text)
    /\ pressed' = 0
    /\ UNCHANGED <<equipment_nbr, reverse_equipments, ids, focused_tag, mouse_coords,
                   display, next_item>>

(* Submit button of prompt i, text being in its entry: PopUpEntry.close *)
close(i, text) == Closed(i, text, "submit", text)

(* the window manager closes prompt i, text being in its entry: the
   toplevel is destroyed and PopUpEntry.close does not run *)
destroy(i, text) == Closed(i, popup_entry_var, "destroy", text)

----------------------------------------------------------------------------
(* NetworkEquipment.setIcon: line 421, then line 422 when the file loads *)
setIcon(item, new_icon) ==
    IF Loads(new_icon)
    THEN [item EXCEPT !.icon_path = new_icon, !.icon = new_icon]
    ELSE [item EXCEPT !.icon_path = new_icon]

(* handleChangeOfEquipmentIcon with the path the file dialog returned
   ("" when cancelled), and setEquipmentIcon *)
handleChangeOfEquipmentIcon(icon_path) ==
    /\ Tick
    /\ HasIcon
    /\ LET equipment_tag == Target
           err == LookupErr(equipment_tag)
       IN IF err # "ok"
          THEN /\ Done("icon", err, equipment_tag, icon_path)
               /\ UNCHANGED <<equipments, items>>
          ELSE LET equipment_holder == reverse_equipments[equipment_tag]
                   obj == setIcon(equipments[equipment_holder].item, icon_path)
               IN /\ equipments' = [equipments EXCEPT ![equipment_holder].item = obj]
                  /\ IF Loads(icon_path)
                     THEN /\ items' = itemconfigure(items, equipment_tag, obj.icon)
                          /\ Done("icon", "ok", equipment_tag, icon_path)
                     ELSE /\ items' = items
                          /\ Done("icon", "FileNotFoundError", equipment_tag, icon_path)
    /\ pressed' = 0
    /\ UNCHANGED <<equipment_nbr, reverse_equipments, ids, focused_tag, mouse_coords,
                   popup_entry_var, display, next_item, prompts>>

----------------------------------------------------------------------------
(* the counter returned without the increment of line 426 *)
getLinksNumberStale(item) == item.links_nbr

(* NetworkEquipment.getLinksNumber: the value returned *)
getLinksNumber(item) == item.links_nbr + 1

(* handleLinkCreation and setEquipmentsLink. After the draft is recorded,
   rightclick_menu.insert_command(-1, "Create link", ...) raises
   AttributeError (tkinter takes the string for the option dictionary). *)
handleLinkCreation ==
    /\ Tick
    /\ HasIcon
    /\ LET equipment_tag == Target
           err == LookupErr(equipment_tag)
       IN IF err # "ok"
          THEN /\ Done("link", err, equipment_tag, 0)
               /\ UNCHANGED equipments
          ELSE LET id == reverse_equipments[equipment_tag]
                   equipment_holder == equipments[id]
                   slot == getLinksNumber(equipment_holder.item)
                   draft == [id |-> "", coords |-> <<mouse_coords, <<0, 0>>>>]
               IN /\ equipments' =
                        [equipments EXCEPT
                            ![id].item.links_nbr = slot,
                            ![id].links = (slot :> draft) @@ equipment_holder.links]
                  /\ Done("link", "AttributeError", equipment_tag, slot)
    /\ pressed' = 0
    /\ UNCHANGED <<equipment_nbr, reverse_equipments, ids, focused_tag, mouse_coords,
                   popup_entry_var, items, display, next_item, prompts>>

Next ==
    \/ \E p \in MovePts : getMouseCoords(p)
    \/ \E t \in TypeInputs : add_equipment(t)
    \/ \E p \in ClickPts : startDragFocus(p)
    \/ \E p \in DragPts : endDragFocus(p)
    \/ \E p \in ClickPts : deleteItem(p)
    \/ handleChangeOfEquipmentName
    \/ \E i \in DOMAIN prompts, n \in NameInputs : close(i, n)
    \/ \E i \in DOMAIN prompts, n \in NameInputs : destroy(i, n)
    \/ \E f \in PathInputs : handleChangeOfEquipmentIcon(f)
    \/ handleLinkCreation


Spec == Init /\ [][Next]_vars

----------------------------------------------------------------------------
(* Properties *)

(* a handle the canvas gave out and deleteItem deleted since *)
Removed(tag) == tag \in 1..(next_item - 1) /\ tag \notin DOMAIN items

(* the step is a successful add_equipment *)
Inserted == last'.op = "insert" /\ last'.err = "ok"

(* C1: every successful insert stores its entry under an id that is no key
   of equipments yet and is greater than every id given out before, removed
   entries included. *)
C1_IdsIncreaseNeverReused ==
    [][Inserted =>
          LET id == reverse_equipments'[last'.tag]
          IN /\ id \notin DOMAIN equipments
             /\ \A j \in DOMAIN equipments : id > j
             /\ equipments'[id] # None
             /\ \A j \in DOMAIN equipments : equipments'[j] = equipments[j]]_vars

C1_Witness ==
    /\ last.op = "insert" /\ last.err = "ok"
    /\ \E j \in DOMAIN equipments :
          equipments[j] = None /\ reverse_equipments[last.tag] > j

(* C2: the per-kind counters start at 0; a successful creation of a kind
   names the equipment "{kind}-{n}" with n one more than that kind's counter
   and advances that counter alone by one; no other step (failed insert,
   remove, rename, ...) changes any counter. *)
C2_DefaultNameSequence ==
    /\ \A k \in DOMAIN ids : ids[k] = 0
    /\ [][IF Inserted
          THEN LET k == last'.arg
               IN /\ equipments'[equipment_nbr'].item.name
                        = k \o "-" \o ToString(ids[k] + 1)
                  /\ ids' = [ids EXCEPT ![k] = ids[k] + 1]
          ELSE ids' = ids]_vars

C2_Witness ==
    /\ last.op = "insert" /\ last.err = "ok"
    /\ equipments[equipment_nbr].item.name = "switch-2"
    /\ \E j \in DOMAIN equipments : equipments[j] = None

(* C3: the live entries and the handle mappings are a bijection: every live
   id has exactly one handle mapped to it and every mapped handle leads to a
   live id. *)
C3_RegistryBijection ==
    /\ \A i \in Live :
          Cardinality({t \in DOMAIN reverse_equipments : reverse_equipments[t] = i}) = 1
    /\ \A t \in DOMAIN reverse_equipments : reverse_equipments[t] \in Live

(* C4: a lookup (by rename, icon change, link request or drag) of a handle
   that was removed ends with the unknown-handle error, KeyError. *)
C4_RemovedHandleUnknown ==
    (last.op \in {"rename", "icon", "link", "drag"} /\ Removed(last.tag))
        => last.err = "KeyError"

(* C5: an insert refused for its kind (ValueError) leaves entries, handle
   mappings, the id counter and the per-kind counters as they were. *)
C5_InvalidKindNoChange ==
    [][(last'.op = "insert" /\ last'.err = "ValueError")
          => UNCHANGED <<equipments, reverse_equipments, equipment_nbr, ids>>]_vars

(* the icons of live equipment, and the one nearest to point p *)
LiveIcons == {equipments[i].canvas_id : i \in Live}
NearestIcon(p, t) ==
    /\ t \in LiveIcons
    /\ \A u \in LiveIcons : Dist2(p, items[t]) <= Dist2(p, items[u])

(* C6: with nothing pressed yet and some equipment alive, a rename, icon
   change or link request resolves, without a lookup error, to a live
   equipment's icon that is nearest to the tracked pointer position. *)
C6_FocusFallback ==
    (last.op \in {"rename", "icon", "link"} /\ focused_tag = 0 /\ Live # {})
        => /\ last.err \notin {"KeyError", "TypeError", "IndexError"}
           /\ NearestIcon(mouse_coords, last.tag)

(* C7: after a drag of a focused icon the icon's top-left corner is at
   (min(x, canvas width) - half icon, min(y, canvas height) - half icon),
   x, y being the pointer coordinates of the event: clamped above only. *)
C7_UpperClampPerAxis ==
    (last.op = "drag" /\ IsIcon(last.tag))
        => /\ items[last.tag].x = Min(last.arg[1], x_size) - icon_size \div 2
           /\ items[last.tag].y = Min(last.arg[2], y_size) - icon_size \div 2

C7_Witness ==
    /\ last.op = "drag" /\ IsIcon(last.tag)
    /\ last.arg[1] > x_size /\ last.arg[2] < 0
    /\ items[last.tag].x = x_size - icon_size \div 2
    /\ items[last.tag].y = last.arg[2] - icon_size \div 2

(* C8: an icon change to a chosen file that does not load leaves every
   attribute of every equipment, the recorded icon path included, as it
   was. *)
C8_FailedLoadNoChange ==
    [][(last'.op = "icon" /\ last'.err = "FileNotFoundError" /\ last'.arg # "")
          => equipments' = equipments]_vars

(* C9: an icon change with a cancelled dialog (empty path) raises nothing
   and changes neither the registry nor the canvas. *)
C9_CancelledDialogNoOp ==
    [][(last'.op = "icon" /\ last'.arg = "")
          => /\ last'.err = "ok"
             /\ UNCHANGED <<equipments, reverse_equipments, items, display>>]_vars

(* C10: the drafts of every live equipment sit in slots 1..links_nbr; a
   link request on an equipment with k-1 drafts takes slot k, one more than
   its counter, records there the tracked pointer position with target
   (0, 0), and leaves the drafts it had untouched. *)
C10_LinkSlots ==
    [][/\ \A i \in DOMAIN equipments' :
             equipments'[i] # None =>
                 DOMAIN equipments'[i].links = 1..equipments'[i].item.links_nbr
       /\ (last'.op = "link" /\ last'.err \notin {"KeyError", "TypeError", "IndexError"})
             => LET id == reverse_equipments[last'.tag]
                    old == equipments[id]
                    new == equipments'[id]
                    slot == last'.arg
                IN /\ slot = Cardinality(DOMAIN old.links) + 1
                   /\ slot = old.item.links_nbr + 1
                   /\ new.item.links_nbr = slot
                   /\ DOMAIN new.links = DOMAIN old.links \cup {slot}
                   /\ new.links[slot].coords = <<mouse_coords, <<0, 0>>>>
                   /\ \A k \in DOMAIN old.links : new.links[k] = old.links[k]]_vars

C10_Witness ==
    /\ last.op = "link" /\ last.arg = 2
    /\ \E i \in Live :
          /\ DOMAIN equipments[i].links = {1, 2}
          /\ equipments[i].links[1].coords[1] # equipments[i].links[2].coords[1]

(* C11: after a press delivered to an icon, focused_tag is the tag of that
   icon, whatever other items lie at or near the press point. *)
C11_PressFocusesPressedIcon ==
    last.op = "press" => (focused_tag = pressed /\ IsIcon(focused_tag))

(* C12: a double click whose nearest item is a tag reverse_equipments never
   held fails with KeyError and changes nothing: no registry entry is set
   to None and no canvas item is lowered or deleted. *)
C12_UntrackedDeleteRejected ==
    [][(last'.op = "delete" /\ last'.tag \notin DOMAIN reverse_equipments)
          => /\ last'.err = "KeyError"
             /\ UNCHANGED <<equipments, reverse_equipments, items, display,
                            equipment_nbr, ids>>]_vars

C12_Witness ==
    /\ last.op = "delete" /\ last.err = "KeyError"
    /\ last.tag \in DOMAIN items /\ items[last.tag].type = "text"
    /\ Live # {}

(* C13: an insert whose kind is a supported kind once lowercased succeeds
   and advances that kind's counter by one, as the lowercase spelling
   does. *)
C13_KindCaseInsensitive ==
    [][(last'.op = "insert" /\ Lower(last'.arg) \in SupportedSet)
          => /\ last'.err = "ok"
             /\ ids' = [ids EXCEPT ![Lower(last'.arg)] = ids[Lower(last'.arg)] + 1]]_vars

(* C14: at most one rename prompt is open at any time. *)
C14_OnePromptOpen ==
    Cardinality({i \in DOMAIN prompts : prompts[i].open}) <= 1

(* C15: for every live equipment, the text of its label on the canvas is
   its name. *)
C15_LabelShowsName ==
    \A i \in Live :
        /\ equipments[i].label \in DOMAIN items
        /\ items[equipments[i].label].type = "text"
        /\ items[equipments[i].label].val = equipments[i].item.name

C15_Witness ==
    /\ last.op = "rename" /\ last.err = "ok"
    /\ \E i, j \in Live :
          /\ equipments[i].item.name = "core"
          /\ items[equipments[i].label].val = "core"
          /\ equipments[j].item.name = "switch-1"

(* C16: a rename applies to what the command designated when it was
   invoked: every handler that resumes in a step finds the target its
   prompt was opened with. *)
C16_RenameTargetFixedAtInvocation ==
    [][\A k \in (Len(prompts') + 1)..Len(prompts) : prompts[k].target = Target]_vars

(* C17: when the prompt on top closes, by Submit or by the window manager,
   and its rename goes through, the name given is the text that was in that
   prompt's entry. *)
C17_AppliedNameIsFieldText ==
    [][(/\ last'.op = "rename" /\ last'.err = "ok"
        /\ Len(prompts') = Len(prompts) - 1
        /\ prompts[Len(prompts)].open)
          => equipments'[reverse_equipments[last'.tag]].item.name = last'.arg]_vars

(* C18: a drag with a live equipment's icon in focus moves two canvas
   items, that icon and that equipment's label: the icon's corner goes to
   (x' - h, y' - h) and the label's to (x' - h/2, y' + h), x', y' being the
   clamped pointer coordinates and h half the icon size; every other item
   and the whole registry stay as they were. *)
C18_DragMovesIconAndLabel ==
    [][(last'.op = "drag" /\ last'.err = "ok")
          => LET t == last'.tag
                 l == equipments[reverse_equipments[t]].label
                 x == Min(last'.arg[1], x_size)
                 y == Min(last'.arg[2], y_size)
                 h == icon_size \div 2
             IN /\ t = focused_tag /\ IsIcon(t) /\ l # t
                /\ DOMAIN items' = DOMAIN items
                /\ items'[t] = [items[t] EXCEPT !.x = x - h, !.y = y - h]
                /\ items'[l] = [items[l] EXCEPT !.x = x - h \div 2, !.y = y + h]
                /\ \A u \in DOMAIN items \ {t, l} : items'[u] = items[u]
                /\ UNCHANGED <<equipments, reverse_equipments, equipment_nbr, ids,
                               display>>]_vars

C18_Witness ==
    /\ last.op = "drag" /\ last.err = "ok"
    /\ \E i, j \in Live :
          /\ equipments[i].canvas_id = last.tag
          /\ items[last.tag].x = x_size - icon_size \div 2
          /\ items[equipments[i].label].x = x_size - icon_size \div 4
          /\ i # j
          /\ items[equipments[j].canvas_id].x = x_size \div 2 - icon_size \div 2

(* C19: focused_tag is 0 or the icon of a live equipment, in every
   reachable state, after the focused equipment was deleted included. *)
C19_FocusLiveOrSentinel ==
    focused_tag = 0 \/ focused_tag \in LiveIcons

(* C20: a successful delete takes exactly one equipment out of the live
   ones and leaves every other entry, every tag mapping, equipment_nbr and
   the per-kind counters as they were. *)
C20_DeleteRemovesOnlyThatOne ==
    [][(last'.op = "delete" /\ last'.err = "ok")
          => LET id == reverse_equipments[last'.tag]
             IN /\ id \in Live
                /\ {i \in DOMAIN equipments' : equipments'[i] # None} = Live \ {id}
                /\ DOMAIN equipments' = DOMAIN equipments
                /\ \A j \in DOMAIN equipments \ {id} : equipments'[j] = equipments[j]
                /\ \A u \in DOMAIN reverse_equipments \ {last'.tag} :
                      /\ u \in DOMAIN reverse_equipments'
                      /\ reverse_equipments'[u] = reverse_equipments[u]
                /\ \A j \in Live \ {id} :
                      /\ items'[equipments[j].canvas_id] = items[equipments[j].canvas_id]
                      /\ items'[equipments[j].label] = items[equipments[j].label]
                /\ equipment_nbr' = equipment_nbr
                /\ ids' = ids]_vars

C20_Witness ==
    /\ last.op = "delete" /\ last.err = "ok"
    /\ Removed(last.tag)
    /\ equipments[reverse_equipments[last.tag]] = None
    /\ \E j \in Live : equipments[j].item.links_nbr = 1 \/ equipments[j].item.name = "core"
====
